---- MODULE Spec2Model ----
(***************************************************************************)
(* MOSFIRE CSU odometer (MOSFIRE_CSU_Odometer/odometer.py, main).          *)
(*                                                                         *)
(* One run of main() walks the sorted list of CSU log files.  A file whose *)
(* directory already holds odometer.json is loaded from it; any other      *)
(* file is read, scanned line by line, dated, recorded in filedates and    *)
(* written to odometer.json.  After the loop the per-file arrays are       *)
(* summed.  The file system (log files and artifacts) outlives a run, so   *)
(* the model lets main() be started again after it has ended.              *)
(*                                                                         *)
(* Numbers: positions and mileage are exact naturals (the log's unit);     *)
(* numpy's array types, the division by 1000 for display and the plotting  *)
(* (lines 129-168) are not modelled: a run is "done" after line 127.       *)
(* Time stamps are modelled as <<year, month, day>>; the time of day is    *)
(* carried along unchanged by the code and is left out.  The logs explored *)
(* name bars of 1..NumBars and months and days strptime accepts.           *)
(***************************************************************************)
EXTENDS Integers, Sequences, FiniteSets, TLC

\* ---------------------------------------------------------------- bounds
NumBars == 2        \* bars are 1..92 in the code; the model keeps 1..NumBars
MaxPos == 2         \* bar positions read from a log are 0..MaxPos
MaxGlob == 2        \* at most this many files match the glob pattern
MaxDateLines == 5   \* longest log explored for date reconstruction
MaxMoveLines == 3   \* longest log explored for move accumulation

\* year that strptime gives a stamp parsed without %Y
StrptimeDefaultYear == 1900

\* ------------------------------------------------------------ data model
Bars == 1..NumBars
Positions == 0..MaxPos

\* A directory is <<year, n>>: the n-th folder whose name is a date of that
\* year (YYYYMMDD); year 0 stands for a name that is no date.
FolderYears == {StrptimeDefaultYear, StrptimeDefaultYear + 1}
Syslogs == <<0, 0>>
\* A path is <<directory, n>>: the n-th CSU.log* file of that directory.
FixedPath == <<Syslogs, 1>>
GlobUniverse == {<<<<y, n>>, f>> : y \in FolderYears, n \in 1..2, f \in 1..2}

\* Year read from the clock by dt.utcnow(): later than every dated folder.
UtcYear == StrptimeDefaultYear + 2

\* A log line, reduced to what the code looks at: bar = 0 when the line has
\* no "Record=<NN," pattern, month = 0 when it has no leading time stamp,
\* field = what the third comma separated field holds.
Line(bar, month, day, field, value) ==
    [bar |-> bar, month |-> month, day |-> day, field |-> field, value |-> value]
NoRecordLine == Line(0, 0, 0, "missing", 0)
NoStampLine == Line(1, 0, 0, "num", 1)

Log(lines) == [decodable |-> TRUE, lines |-> lines]
Undecodable == [decodable |-> FALSE, lines |-> <<>>]

SeqsUpTo(S, n) == UNION {[1..m -> S] : m \in 0..n}

\* --------------------------------------------------------- pure helpers
\* re.search('Record=<(\d\d),', line) is not None
BarMatch(line) == line.bar # 0

\* re.match('(\w+)\s+(\d+)\s+(\d+:\d+:\d+).+', line) is not None
StampMatch(line) == line.month # 0

\* dt.strptime(date_string, '%b %d %H:%M:%S'): the year is the default one
Strptime(line) == <<StrptimeDefaultYear, line.month, line.day>>

\* float(line.strip('\n').split(',')[2]): the exception raised, "" if none
FloatError(line) ==
    IF line.field = "missing" THEN "IndexError"
    ELSE IF line.field = "text" THEN "ValueError"
    ELSE ""

\* comparison of two datetimes
DateLE(a, b) ==
    \/ a[1] < b[1]
    \/ a[1] = b[1] /\ a[2] < b[2]
    \/ a[1] = b[1] /\ a[2] = b[2] /\ a[3] <= b[3]

\* (file_start >= fdc[0]) and (file_start <= fdc[1])
StartInside(date, fdc) == DateLE(fdc[1], date) /\ DateLE(date, fdc[2])

\* dt.strptime(d.strftime(f'{year} %m %d %H:%M:%S'), '%Y %m %d %H:%M:%S')
WithYear(date, y) == <<y, date[2], date[3]>>

\* dt.strptime(folder, '%Y%m%d'): <<year>>, or <<>> on ValueError
ParseFolder(dir) == IF dir[1] # 0 THEN <<dir[1]>> ELSE <<>>

\* variant: a repeated month counted as a year boundary
IsRolloverOrSame(month, month_decimal) == month <= month_decimal

\* date.month < month_decimal
IsRollover(month, month_decimal) == month < month_decimal

\* last_pos[bar] != 0
HasLastPos(pos) == pos # 0

Abs(x) == IF x < 0 THEN -x ELSE x

\* json.dump / json.load of one number: its decimal digits
RECURSIVE NumToText(_)
NumToText(n) == IF n < 10 THEN <<n>> ELSE NumToText(n \div 10) \o <<n % 10>>

RECURSIVE TextToNum(_)
TextToNum(t) ==
    IF Len(t) = 0 THEN 0
    ELSE 10 * TextToNum(SubSeq(t, 1, Len(t) - 1)) + t[Len(t)]

\* result = {'odometer': mileage, 'nmoves': nmoves}; json.dump(result, FO)
JsonDump(mileage, nmoves) ==
    [odometer |-> [b \in Bars |-> NumToText(mileage[b])],
     nmoves |-> [b \in Bars |-> NumToText(nmoves[b])]]

\* variant: the odometer read from the wrong key of the artifact
LoadedOdometerFromMoves(artifact) == [b \in Bars |-> TextToNum(artifact.nmoves[b])]

\* result = json.load(FO); result['odometer'], result['nmoves']
LoadedOdometer(artifact) == [b \in Bars |-> TextToNum(artifact.odometer[b])]
LoadedMoves(artifact) == [b \in Bars |-> TextToNum(artifact.nmoves[b])]

\* sorted(glob(...)): paths in lexicographic order
PathLess(p, q) ==
    \/ p[1][1] < q[1][1]
    \/ p[1][1] = q[1][1] /\ p[1][2] < q[1][2]
    \/ p[1] = q[1] /\ p[2] < q[2]

RECURSIVE Sorted(_)
Sorted(S) ==
    IF S = {} THEN <<>>
    ELSE LET p == CHOOSE x \in S : \A y \in S \ {x} : PathLess(x, y)
         IN <<p>> \o Sorted(S \ {p})

\* log_files = sorted(glob(...)); log_files.append('/sdata1300/syslogs/CSU.log')
LogFiles(matched) == Append(Sorted(matched), FixedPath)

Zeros == [b \in Bars |-> 0]

\* element-wise sum of arr[f] over the files of a list
RECURSIVE SumAll(_, _)
SumAll(files, arr) ==
    IF Len(files) = 0 THEN Zeros
    ELSE LET rest == SumAll(Tail(files), arr)
         IN [b \in Bars |-> arr[Head(files)][b] + rest[b]]

\* ---------------------------------------------------------------- state
VARIABLES
    matched,        \* the paths the glob pattern matches
    fs,             \* content of every log file
    cache,          \* directory -> odometer.json, for the directories that hold one
    written,        \* history: directory -> the file and arrays last dumped there
    pc,             \* "idle", "loop", "lines", "done", "exit", "error"
    error,          \* the exception that ended the run, "" if none
    log_files, i, filedates, odometers, moves,
    folderdt, year, last_file,
    contents, k,    \* lines of the file being scanned, index of the next line
    nmoves, mileage, month_decimal, year_iteration, last_pos,
    file_start, file_end

fileVars == <<nmoves, mileage, month_decimal, year_iteration, last_pos,
              file_start, file_end>>
runVars == <<log_files, filedates, odometers, moves, folderdt, year, last_file>>
diskVars == <<matched, fs, cache, written>>
vars == <<diskVars, pc, error, i, runVars, contents, k, fileVars>>

Unbound == <<>>
None == <<>>
EmptyDict == [x \in {} |-> 0]

\* d[key] = value on a dict
Put(d, key, value) == (key :> value) @@ d

log_file == log_files[i + 1]
log_path == log_file[1]

\* ------------------------------------------------------- files explored
\* Logs of a run over several files: unreadable, or two readings of bar 1
\* (the bar stays, or moves by two units).
RunContents ==
    {Undecodable} \cup {Log(<<Line(1, 1, 1, "num", 1), Line(1, 1, 1, "num", v)>>) : v \in {1, 3}}

\* Logs explored for date reconstruction: bar 1 at one position, any month.
DateMonths == {1, 2, 11, 12}
DateLines == {NoStampLine} \cup {Line(1, m, 1, "num", 1) : m \in DateMonths}

\* Logs explored for move accumulation: any bar and position in one month.
MoveLines ==
    {NoRecordLine, Line(1, 1, 1, "text", 0), Line(1, 1, 1, "missing", 0)}
    \cup {Line(b, 1, 1, "num", v) : b \in Bars, v \in Positions}

ScanContents ==
    {Undecodable}
    \cup {Log(l) : l \in SeqsUpTo(DateLines, MaxDateLines)}
    \cup {Log(l) : l \in SeqsUpTo(MoveLines, MaxMoveLines)}

ScanPath == <<<<StrptimeDefaultYear + 1, 1>>, 1>>

Blank ==
    /\ pc = "idle" /\ error = ""
    /\ cache = EmptyDict /\ written = EmptyDict
    /\ log_files = <<>> /\ i = 0
    /\ filedates = EmptyDict /\ odometers = EmptyDict /\ moves = EmptyDict
    /\ folderdt = Unbound /\ year = Unbound /\ last_file = Unbound
    /\ contents = <<>> /\ k = 1
    /\ nmoves = Zeros /\ mileage = Zeros /\ last_pos = Zeros
    /\ month_decimal = 0 /\ year_iteration = 0
    /\ file_start = None /\ file_end = None

\* Several short logs in any directories.
InitRun ==
    /\ matched \in {S \in SUBSET GlobUniverse : Cardinality(S) <= MaxGlob}
    /\ fs \in [matched \cup {FixedPath} -> RunContents]
    /\ Blank

\* One dated directory with one log of any content; the operational log of
\* /sdata1300/syslogs is empty.
InitScan ==
    /\ matched = {ScanPath}
    /\ \E c \in ScanContents : fs = (ScanPath :> c) @@ (FixedPath :> Log(<<>>))
    /\ Blank

Init == InitRun \/ InitScan

\* --------------------------------------------------------------- actions
\* main() is entered: lines 20-27
StartRun ==
    /\ pc \in {"idle", "done", "exit", "error"}
    /\ pc' = "loop" /\ error' = ""
    /\ log_files' = LogFiles(matched) /\ i' = 0
    /\ filedates' = EmptyDict /\ odometers' = EmptyDict /\ moves' = EmptyDict
    /\ folderdt' = Unbound /\ year' = Unbound /\ last_file' = Unbound
    /\ contents' = <<>> /\ k' = 1
    /\ nmoves' = Zeros /\ mileage' = Zeros /\ last_pos' = Zeros
    /\ month_decimal' = 0 /\ year_iteration' = 0
    /\ file_start' = None /\ file_end' = None
    /\ UNCHANGED diskVars

AtFile == pc = "loop" /\ i < Len(log_files)

\* lines 31-36: odometer.json exists in the file's directory
LoadCache ==
    /\ AtFile
    /\ log_path \in DOMAIN cache
    /\ odometers' = Put(odometers, log_file, LoadedOdometer(cache[log_path]))
    /\ moves' = Put(moves, log_file, LoadedMoves(cache[log_path]))
    /\ i' = i + 1
    /\ UNCHANGED <<diskVars, pc, error, log_files, filedates, folderdt, year,
                   last_file, contents, k, fileVars>>

\* lines 38-53: no artifact, the file is read
OpenFile ==
    /\ AtFile
    /\ log_path \notin DOMAIN cache
    /\ fs[log_file].decodable
    /\ nmoves' = Zeros /\ mileage' = Zeros /\ last_pos' = Zeros
    /\ month_decimal' = 0 /\ year_iteration' = 0
    /\ contents' = fs[log_file].lines /\ k' = 1
    /\ file_start' = None /\ file_end' = None
    /\ pc' = "lines"
    /\ UNCHANGED <<diskVars, error, i, runVars>>

\* lines 38-49, 118-119: readlines() raises UnicodeDecodeError
SkipUndecodable ==
    /\ AtFile
    /\ log_path \notin DOMAIN cache
    /\ ~fs[log_file].decodable
    /\ nmoves' = Zeros /\ mileage' = Zeros /\ last_pos' = Zeros
    /\ month_decimal' = 0 /\ year_iteration' = 0
    /\ i' = i + 1
    /\ UNCHANGED <<diskVars, pc, error, runVars, contents, k, file_start, file_end>>

AtLine == pc = "lines" /\ k <= Len(contents)
line == contents[k]

\* lines 55-56: no bar pattern
SkipNoRecord ==
    /\ AtLine
    /\ ~BarMatch(line)
    /\ k' = k + 1
    /\ UNCHANGED <<diskVars, pc, error, i, runVars, contents, fileVars>>

\* lines 58-59, 89-90: bar pattern but no time stamp, the line is printed
SkipNoStamp ==
    /\ AtLine
    /\ BarMatch(line) /\ ~StampMatch(line)
    /\ k' = k + 1
    /\ UNCHANGED <<diskVars, pc, error, i, runVars, contents, fileVars>>

\* lines 63-66
Dated ==
    /\ year_iteration' =
          IF IsRollover(line.month, month_decimal) THEN year_iteration + 1
          ELSE year_iteration
    /\ month_decimal' = line.month

IsFirstDate == file_start = None
FoundOverlap ==
    \E compfile \in DOMAIN filedates : StartInside(Strptime(line), filedates[compfile])

\* lines 69-80
Stamped ==
    /\ file_start' = IF IsFirstDate THEN Strptime(line) ELSE file_start
    /\ file_end' = IF IsFirstDate THEN file_end ELSE Strptime(line)

\* lines 57-78: the first date of the file lies in an earlier file's span
OverlapExit ==
    /\ AtLine
    /\ BarMatch(line) /\ StampMatch(line)
    /\ IsFirstDate /\ FoundOverlap
    /\ Dated /\ Stamped
    /\ pc' = "exit"
    /\ UNCHANGED <<diskVars, error, i, runVars, contents, k, nmoves, mileage, last_pos>>

\* lines 57-81: float() or the indexing raises
BadField ==
    /\ AtLine
    /\ BarMatch(line) /\ StampMatch(line)
    /\ ~(IsFirstDate /\ FoundOverlap)
    /\ FloatError(line) # ""
    /\ Dated /\ Stamped
    /\ pc' = "error" /\ error' = FloatError(line)
    /\ UNCHANGED <<diskVars, i, runVars, contents, k, nmoves, mileage, last_pos>>

\* lines 82-86
Moved(bar, barpos) == HasLastPos(last_pos[bar]) /\ Abs(last_pos[bar] - barpos) > 0

\* lines 57-88: a record is taken
AcceptRecord ==
    /\ AtLine
    /\ BarMatch(line) /\ StampMatch(line)
    /\ ~(IsFirstDate /\ FoundOverlap)
    /\ FloatError(line) = ""
    /\ Dated /\ Stamped
    /\ LET bar == line.bar
           barpos == line.value
       IN /\ nmoves' = IF Moved(bar, barpos)
                       THEN [nmoves EXCEPT ![bar] = @ + 1] ELSE nmoves
          /\ mileage' = IF Moved(bar, barpos)
                        THEN [mileage EXCEPT ![bar] = @ + Abs(last_pos[bar] - barpos)]
                        ELSE mileage
          /\ last_pos' = [last_pos EXCEPT ![bar] = barpos]
    /\ k' = k + 1
    /\ UNCHANGED <<diskVars, pc, error, i, runVars, contents>>

AtEnd == pc = "lines" /\ k > Len(contents)

\* lines 91-92: assert file_start is not None; assert file_end is not None
AssertFails == file_start = None \/ file_end = None

FailAssert ==
    /\ AtEnd
    /\ AssertFails
    /\ pc' = "error" /\ error' = "AssertionError"
    /\ UNCHANGED <<diskVars, i, runVars, contents, k, fileVars>>

\* lines 94-98: folderdt is bound only when the folder name is a date,
\* otherwise the clock's year is bound to year
FolderdtAfter == IF ParseFolder(log_path) # <<>> THEN ParseFolder(log_path) ELSE folderdt
YearAfter == IF ParseFolder(log_path) # <<>> THEN year ELSE <<UtcYear>>

\* lines 94-100: folderdt is read while unbound
FailFolderdt ==
    /\ AtEnd
    /\ ~AssertFails
    /\ FolderdtAfter = Unbound
    /\ year' = YearAfter
    /\ pc' = "error" /\ error' = "UnboundLocalError: folderdt"
    /\ UNCHANGED <<diskVars, i, log_files, filedates, odometers, moves, folderdt,
                   last_file, contents, k, fileVars>>

\* lines 100-101
EndYear(anchor, iterations) == anchor
StartYear(anchor, iterations) == anchor - iterations

\* lines 94-104
Spanned ==
    /\ folderdt' = FolderdtAfter
    /\ year' = YearAfter
    /\ file_end' = WithYear(file_end, EndYear(FolderdtAfter[1], year_iteration))
    /\ file_start' = WithYear(file_start, StartYear(FolderdtAfter[1], year_iteration))
    /\ filedates' = Put(filedates, log_file, <<file_start', file_end'>>)

\* lines 94-106: last_file is read while unbound
FailLastFile ==
    /\ AtEnd
    /\ ~AssertFails
    /\ FolderdtAfter # Unbound
    /\ i > 0 /\ last_file = Unbound
    /\ Spanned
    /\ pc' = "error" /\ error' = "UnboundLocalError: last_file"
    /\ UNCHANGED <<diskVars, i, log_files, odometers, moves, last_file, contents, k,
                   nmoves, mileage, month_decimal, year_iteration, last_pos>>

\* lines 94-117: the span is recorded and the artifact written
FinishFile ==
    /\ AtEnd
    /\ ~AssertFails
    /\ FolderdtAfter # Unbound
    /\ ~(i > 0 /\ last_file = Unbound)
    /\ Spanned
    /\ last_file' = log_file
    /\ odometers' = Put(odometers, log_file, mileage)
    /\ moves' = Put(moves, log_file, nmoves)
    /\ cache' = Put(cache, log_path, JsonDump(mileage, nmoves))
    /\ written' = Put(written, log_path,
                      [file |-> log_file, mileage |-> mileage, nmoves |-> nmoves])
    /\ i' = i + 1
    /\ pc' = "loop"
    /\ UNCHANGED <<matched, fs, error, log_files, contents, k,
                   nmoves, mileage, month_decimal, year_iteration, last_pos>>

AfterFiles == pc = "loop" /\ i = Len(log_files)

\* the files of the list before the first one without a result
Summable ==
    LET missing == {n \in 1..Len(log_files) : log_files[n] \notin DOMAIN moves}
    IN IF missing = {} THEN log_files
       ELSE SubSeq(log_files, 1, (CHOOSE n \in missing : \A m \in missing : n <= m) - 1)

\* lines 123-127: every file of the list has a result
SumResults ==
    /\ AfterFiles
    /\ Summable = log_files
    /\ nmoves' = SumAll(log_files, moves)
    /\ mileage' = SumAll(log_files, odometers)
    /\ pc' = "done"
    /\ UNCHANGED <<diskVars, error, i, runVars, contents, k,
                   month_decimal, year_iteration, last_pos, file_start, file_end>>

\* lines 123-126: moves[log_file] of a file without a result
SumKeyError ==
    /\ AfterFiles
    /\ Summable # log_files
    /\ nmoves' = SumAll(Summable, moves)
    /\ mileage' = SumAll(Summable, odometers)
    /\ pc' = "error" /\ error' = "KeyError"
    /\ UNCHANGED <<diskVars, i, runVars, contents, k,
                   month_decimal, year_iteration, last_pos, file_start, file_end>>

Next ==
    \/ StartRun
    \/ LoadCache
    \/ OpenFile
    \/ SkipUndecodable
    \/ SkipNoRecord
    \/ SkipNoStamp
    \/ OverlapExit
    \/ BadField
    \/ AcceptRecord
    \/ FailAssert
    \/ FailFolderdt
    \/ FailLastFile
    \/ FinishFile
    \/ SumResults
    \/ SumKeyError

Spec == Init /\ [][Next]_vars

\* ------------------------------------------------------------ properties
\* The records the scan takes: bar pattern, time stamp and numeric field.
IsRecord(l) == BarMatch(l) /\ StampMatch(l) /\ FloatError(l) = ""
Accepted(lines) == SelectSeq(lines, IsRecord)
Scanned == SubSeq(contents, 1, k - 1)

MonthsOf(lines) == [n \in 1..Len(Accepted(lines)) |-> Accepted(lines)[n].month]
PositionsOf(bar, lines) ==
    LET own == SelectSeq(Accepted(lines), LAMBDA l : l.bar = bar)
    IN [n \in 1..Len(own) |-> own[n].value]

\* consecutive pairs of a sequence of positions that differ
Differing(ps) == {n \in 2..Len(ps) : ps[n] # ps[n - 1]}

RECURSIVE Travel(_)
Travel(ps) ==
    IF Len(ps) < 2 THEN 0
    ELSE Travel(SubSeq(ps, 1, Len(ps) - 1)) + Abs(ps[Len(ps)] - ps[Len(ps) - 1])

\* records whose month is less than the month of the record before
Rollovers(ms) == Cardinality({n \in 2..Len(ms) : ms[n] < ms[n - 1]})

InDatedFolder(f) == ParseFolder(f[1]) # <<>>
Loaded == {f \in DOMAIN odometers : f \notin DOMAIN filedates}
SpansMeet(a, b) == DateLE(a[1], b[2]) /\ DateLE(b[1], a[2])

\* C1: while a file is scanned, nmoves[bar] is the number of consecutive
\* accepted records of the bar whose positions differ and mileage[bar] is
\* the sum of the absolute differences, positions of 0 included.
C1_MovesCountPairs ==
    pc = "lines" =>
        \A b \in Bars :
            /\ nmoves[b] = Cardinality(Differing(PositionsOf(b, Scanned)))
            /\ mileage[b] = Travel(PositionsOf(b, Scanned))

\* C2: a run that reaches the aggregate has recorded no two spans that
\* overlap, for files whose anchor year is the one of their own folder.
C2_OverlapAborts ==
    pc = "done" =>
        \A f \in DOMAIN filedates : \A g \in DOMAIN filedates :
            (f # g /\ InDatedFolder(f) /\ InDatedFolder(g)) => ~SpansMeet(filedates[f], filedates[g])

\* C3: a step at a file whose directory holds the artifact this same file
\* wrote loads exactly the arrays of the cold run, parses nothing and leaves
\* the artifact alone.
C3_WarmEqualsCold ==
    [][(/\ AtFile
        /\ log_path \in DOMAIN cache
        /\ log_path \in DOMAIN written
        /\ written[log_path].file = log_file)
       => (/\ log_file \in DOMAIN odometers'
           /\ odometers'[log_file] = written[log_path].mileage
           /\ moves'[log_file] = written[log_path].nmoves
           /\ log_file \notin DOMAIN filedates'
           /\ cache' = cache
           /\ pc' = "loop" /\ i' = i + 1)]_vars

\* a file was loaded from the artifact of its own earlier cold run, with a move
C3_Witness ==
    \E f \in Loaded :
        /\ f[1] \in DOMAIN written
        /\ written[f[1]].file = f
        /\ odometers[f] = written[f[1]].mileage
        /\ moves[f] = written[f[1]].nmoves
        /\ \E b \in Bars : odometers[f][b] > moves[f][b] /\ moves[f][b] > 0

\* C4: once every file of the list has been gone through and some were
\* skipped as undecodable, the run goes on to the aggregate.
C4_SkipKeepsAggregate ==
    (/\ pc # "idle"
     /\ i = Len(log_files)
     /\ \E n \in 1..i : log_files[n] \notin DOMAIN moves)
    => pc \in {"loop", "done"}

\* C5: a file whose folder name is no date never ends the run for want of
\* an anchor year, and its recorded span ends in the current UTC year and
\* starts year_iteration years before it.
C5_FallbackYear ==
    /\ error # "UnboundLocalError: folderdt"
    /\ \A f \in DOMAIN filedates :
           ~InDatedFolder(f) =>
               /\ filedates[f][2][1] = UtcYear
               /\ filedates[f][1][1] = UtcYear - Rollovers(MonthsOf(fs[f].lines))

\* C6: during the scan year_iteration is the number of accepted records so
\* far whose month is less than the month of the accepted record before (0
\* at the start, so never decreasing), and the span recorded for a file of
\* a dated folder ends in the folder's year and starts year_iteration years
\* before it.
C6_YearIteration ==
    /\ pc = "lines" => year_iteration = Rollovers(MonthsOf(Scanned))
    /\ \A f \in DOMAIN filedates :
           InDatedFolder(f) =>
               /\ filedates[f][2][1] = f[1][1]
               /\ filedates[f][1][1] = f[1][1] - Rollovers(MonthsOf(fs[f].lines))

\* the months 11, 12, 12, 1, 2: one rollover, start one year before the anchor
C6_Witness ==
    /\ ScanPath \in DOMAIN filedates
    /\ MonthsOf(fs[ScanPath].lines) = <<11, 12, 12, 1, 2>>
    /\ year_iteration = 1
    /\ filedates[ScanPath][2][1] = ScanPath[1][1]
    /\ filedates[ScanPath][1][1] = ScanPath[1][1] - 1

\* C7: at the end of a scan the start/end assertion fails exactly when the
\* file has no accepted record.
C7_AssertIffNoRecord ==
    AtEnd => (AssertFails <=> Len(Accepted(contents)) = 0)

\* C8: no single log line ends the run.
C8_NoLineEndsRun ==
    pc = "error" => error \notin {"ValueError", "IndexError"}

\* C9: a file without artifact that has valid records gets its span
\* recorded and its artifact written, whatever happened to the files
\* before it: the run never ends at the gap to the last parsed file.
C9_FreshFileFinishes ==
    pc = "error" => error # "UnboundLocalError: last_file"

\* C10: in a run that reaches the aggregate, every result loaded from an
\* artifact was accumulated from the records of the file it is counted for.
C10_OwnResult ==
    pc = "done" => \A f \in Loaded : written[f[1]].file = f
====
